---- MODULE Spec2Model ----
(***************************************************************************)
(* Model of tools/build_sde_subset.py: the offline SDE subset builder.     *)
(*                                                                         *)
(* Raw JSON scalars are tagged values: I(n) is a number, Str a string that *)
(* is not a number, None an absent key.  Display names and mapping keys    *)
(* are strings, handled character by character.  The two curly single      *)
(* quotes U+2018 and U+2019 are written "<" and ">" (the module is ASCII). *)
(* A Python dict is a function together with an iteration order; the order *)
(* is chosen by the action that iterates it.                               *)
(***************************************************************************)
EXTENDS Integers, Sequences, FiniteSets, TLC

\* ------------------------------------------------------------------ bounds
\* Largest number of records in the raw blueprints mapping.
MaxBlueprints == 2

\* ------------------------------------------------------------- raw scalars
I(n) == [t |-> "int", v |-> n]
Str == [t |-> "str", v |-> 0]
None == [t |-> "none", v |-> 0]

\* The result of a Python expression that may raise.
Ok(n) == [ok |-> TRUE, v |-> n]
Raise == [ok |-> FALSE, v |-> 0]

\* int(x): a number parses, a non-numeric string or None raises.
PyInt(x) == IF x.t = "int" THEN Ok(x.v) ELSE Raise

\* int(d.get(k, 1)): an absent key defaults to 1.
PyIntDefault1(x) == IF x.t = "none" THEN Ok(1) ELSE PyInt(x)

\* int(d.get(k, 0) or 0): absent and 0 give 0.
PyIntOr0(x) == IF x.t = "none" THEN Ok(0) ELSE PyInt(x)

Max(a, b) == IF a >= b THEN a ELSE b

\* ----------------------------------------------------------------- strings
Char(s, i) == SubSeq(s, i, i)

\* Code point order of the characters that occur in the model.
CodePoints == " '0123456789<>ABCDEFGHIJKLMNOPQRSTUVWXYZ_abcdefghijklmnopqrstuvwxyz"

Chars == {Char(CodePoints, i) : i \in 1..Len(CodePoints)}

\* ord(c)
OrdTable == [c \in Chars |-> CHOOSE i \in 1..Len(CodePoints) : Char(CodePoints, i) = c]
Ord(c) == OrdTable[c]

Uppers == "ABCDEFGHIJKLMNOPQRSTUVWXYZ"
Lowers == "abcdefghijklmnopqrstuvwxyz"
Digits == "0123456789"

In(c, chars) == \E i \in 1..Len(chars) : Char(chars, i) = c

IsSpace(c) == c = " "

\* \w of the regular expressions: letters, digits, underscore.
WordChars == {c \in Chars : In(c, Uppers) \/ In(c, Lowers) \/ In(c, Digits) \/ c = "_"}
IsWordChar(c) == c \in WordChars

\* str.lower(), one character
LowerTable ==
    [c \in Chars |->
        IF In(c, Uppers)
        THEN Char(Lowers, CHOOSE i \in 1..Len(Uppers) : Char(Uppers, i) = c)
        ELSE c]
LowerChar(c) == LowerTable[c]

RECURSIVE MapChars(_, _)
\* kind "lower": str.lower(); kind "quote": replace of both curly quotes by "'".
MapChars(s, kind) ==
    IF s = "" THEN ""
    ELSE LET c == Char(s, 1)
             d == IF kind = "lower" THEN LowerChar(c)
                  ELSE IF c = ">" \/ c = "<" THEN "'" ELSE c
         IN  d \o MapChars(SubSeq(s, 2, Len(s)), kind)

RECURSIVE LStrip(_)
LStrip(s) == IF s # "" /\ IsSpace(Char(s, 1)) THEN LStrip(SubSeq(s, 2, Len(s))) ELSE s

RECURSIVE RStrip(_)
RStrip(s) ==
    IF s # "" /\ IsSpace(Char(s, Len(s))) THEN RStrip(SubSeq(s, 1, Len(s) - 1)) ELSE s

\* str.strip()
Strip(s) == RStrip(LStrip(s))

RECURSIVE CollapseSpaces(_)
\* re.sub(r"\s+", " ", s)
CollapseSpaces(s) ==
    IF s = "" THEN ""
    ELSE IF IsSpace(Char(s, 1))
         THEN " " \o CollapseSpaces(LStrip(s))
         ELSE Char(s, 1) \o CollapseSpaces(SubSeq(s, 2, Len(s)))

\* The four steps of normalize_name: strip, lower, collapse, replace.
NormalizeSteps(name) ==
    MapChars(CollapseSpaces(MapChars(Strip(name), "lower")), "quote")

EndsWith(s, suffix) ==
    Len(s) >= Len(suffix) /\ SubSeq(s, Len(s) - Len(suffix) + 1, Len(s)) = suffix

\* str.isdigit()
DigitChars == {c \in Chars : In(c, Digits)}
IsDigitStr(s) == s # "" /\ \A i \in 1..Len(s) : Char(s, i) \in DigitChars

RECURSIVE StrToInt(_)
\* int(s) of a string of digits
StrToInt(s) ==
    IF s = "" THEN 0
    ELSE 10 * StrToInt(SubSeq(s, 1, Len(s) - 1)) + (Ord(Char(s, Len(s))) - Ord("0"))

RECURSIVE StrLess(_, _)
\* s < t of two Python strings
StrLess(s, t) ==
    IF t = "" THEN FALSE
    ELSE IF s = "" THEN TRUE
    ELSE IF Char(s, 1) # Char(t, 1) THEN Ord(Char(s, 1)) < Ord(Char(t, 1))
    ELSE StrLess(SubSeq(s, 2, Len(s)), SubSeq(t, 2, Len(t)))

\* ------------------------------------------------------ filtering settings
FILTER_PRODUCT_CATEGORIES_T1 == {7, 8, 18}
FILTER_REQUIRE_META_GROUP_ID_T1 == 1
RomanNumerals == {"II", "III", "IV", "V", "VI", "VII", "VIII", "IX", "X"}

\* FILTER_EXCLUDE_ROMAN_NUMERALS.search(name): \b(II|...|X)\b matches somewhere.
FILTER_EXCLUDE_ROMAN_NUMERALS(name) ==
    \E i \in 1..Len(name) : \E j \in i..Len(name) :
        /\ SubSeq(name, i, j) \in RomanNumerals
        /\ (i = 1 \/ ~IsWordChar(Char(name, i - 1)))
        /\ (j = Len(name) \/ ~IsWordChar(Char(name, j + 1)))

\* ----------------------------------------------------- raw collections
\* One element of a materials / products collection.  isdict is FALSE for an
\* element that is not a JSON object.
Entry(tid, qty) == [isdict |-> TRUE, type_id |-> tid, quantity |-> qty, probability |-> None]
EntryP(tid, qty, prob) == [isdict |-> TRUE, type_id |-> tid, quantity |-> qty, probability |-> prob]
NotADict == [isdict |-> FALSE, type_id |-> None, quantity |-> None, probability |-> None]

\* A collection: a JSON array (items is a sequence), a JSON object (items is a
\* function of its keys) or absent.
List(items) == [shape |-> "list", items |-> items]
Dict(items) == [shape |-> "dict", items |-> items]
Absent == [shape |-> "none", items |-> <<>>]

\* "not x" of a collection
Falsy(blob) == blob.shape = "none" \/ DOMAIN blob.items = {}

Perms(S) == {f \in [1..Cardinality(S) -> S] : \A i, j \in DOMAIN f : f[i] = f[j] => i = j}

\* The iteration orders a collection can have: any order of the keys of an
\* object, the one order of an array.
Orders(blob) == IF blob.shape = "dict" THEN Perms(DOMAIN blob.items) ELSE {<<>>}

\* The elements in iteration order.
Iter(blob, order) ==
    IF blob.shape = "dict" THEN [i \in 1..Len(order) |-> blob.items[order[i]]]
    ELSE blob.items

\* list.sort(key=lambda x: x[0]): stable, ascending by the first component.
InsertRow(sorted, x) ==
    LET k == Cardinality({i \in 1..Len(sorted) : sorted[i][1] <= x[1]})
    IN  SubSeq(sorted, 1, k) \o <<x>> \o SubSeq(sorted, k + 1, Len(sorted))

RECURSIVE SortRows(_)
SortRows(rows) ==
    IF rows = <<>> THEN <<>>
    ELSE InsertRow(SortRows(SubSeq(rows, 1, Len(rows) - 1)), rows[Len(rows)])

\* ---------------------------------------------------- Materials Projector
\* The body of the two loops of _list_from_materials_blob: the row of one
\* element, or no row.
MaterialRow(v) ==
    LET tid == PyInt(v.type_id)
        qty == PyInt(v.quantity)
    IN  IF v.isdict /\ tid.ok /\ qty.ok /\ tid.v # 0 /\ qty.v # 0
        THEN <<(<<tid.v, qty.v>>)>>
        ELSE <<>>

RECURSIVE MaterialRows(_)
MaterialRows(vs) ==
    IF vs = <<>> THEN <<>> ELSE MaterialRow(Head(vs)) \o MaterialRows(Tail(vs))

_list_from_materials_blob(materials, order) ==
    IF Falsy(materials) THEN <<>>
    ELSE SortRows(MaterialRows(Iter(materials, order)))

\* ------------------------------------------------------- Product Selector
\* The sort key of a mapping key: int(s) if str(s).isdigit() else str(s).
\* Comparing an int key with a str key raises TypeError.
KeysMixed(keys) ==
    \E i, j \in DOMAIN keys : IsDigitStr(keys[i]) /\ ~IsDigitStr(keys[j])

KeyLeq(a, b) ==
    IF IsDigitStr(a) THEN StrToInt(a) <= StrToInt(b) ELSE ~StrLess(b, a)

InsertKey(sorted, x) ==
    LET k == Cardinality({i \in 1..Len(sorted) : KeyLeq(sorted[i], x)})
    IN  SubSeq(sorted, 1, k) \o <<x>> \o SubSeq(sorted, k + 1, Len(sorted))

RECURSIVE SortKeys(_)
\* sorted(products.keys(), key=...): stable
SortKeys(keys) ==
    IF keys = <<>> THEN <<>>
    ELSE InsertKey(SortKeys(SubSeq(keys, 1, Len(keys) - 1)), keys[Len(keys)])

RECURSIVE FirstUsable(_)
\* The loop body shared by both shapes: the first element giving a type id.
FirstUsable(vs) ==
    IF vs = <<>> THEN <<>>
    ELSE LET v == Head(vs)
             tid == PyInt(v.type_id)
             qty == PyIntDefault1(v.quantity)
         IN  IF v.isdict /\ tid.ok /\ qty.ok /\ tid.v # 0
             THEN <<tid.v, Max(1, qty.v)>>
             ELSE FirstUsable(Tail(vs))

\* Ok(<<tid, qty>>), Ok(<<>>) for None, or Raise for the TypeError of sorted().
_pick_first_product(products, order) ==
    IF Falsy(products) THEN Ok(<<>>)
    ELSE IF products.shape = "dict"
    THEN IF KeysMixed(order) THEN Raise
         ELSE Ok(FirstUsable(Iter(products, SortKeys(order))))
    ELSE Ok(FirstUsable(products.items))

\* ------------------------------------------------------ invention products
InventionRow(v) ==
    LET tid == PyInt(v.type_id)
        qty == PyIntDefault1(v.quantity)
        prob == v.probability
    IN  IF v.isdict /\ tid.ok /\ qty.ok /\ tid.v # 0
        THEN IF prob.t = "int"
             THEN <<(<<tid.v, Max(1, qty.v), prob.v>>)>>
             ELSE <<(<<tid.v, Max(1, qty.v)>>)>>
        ELSE <<>>

RECURSIVE InventionRows(_)
InventionRows(vs) ==
    IF vs = <<>> THEN <<>> ELSE InventionRow(Head(vs)) \o InventionRows(Tail(vs))

_list_from_invention_products(products, order) ==
    IF Falsy(products) THEN <<>>
    ELSE SortRows(InventionRows(Iter(products, order)))

\* -------------------------------------------------- Eligibility Classifier
\* get_en_name: the English name, "" when absent.
get_en_name(type_row) == type_row.name

\* The policy without its meta-group test: the slip that C9_T1Policy excludes.
include_without_meta_group(prod_row) ==
    LET cat_id == PyInt(prod_row.category_id)
    IN  IF ~cat_id.ok THEN FALSE
        ELSE IF cat_id.v \notin FILTER_PRODUCT_CATEGORIES_T1 THEN FALSE
        ELSE prod_row.meta_group_id.t # "none"
             \/ ~FILTER_EXCLUDE_ROMAN_NUMERALS(get_en_name(prod_row))

include_by_t1_policy(prod_row) ==
    LET cat_id == PyInt(prod_row.category_id)
        meta_group_id == prod_row.meta_group_id
    IN  IF ~cat_id.ok THEN FALSE
        ELSE IF cat_id.v \notin FILTER_PRODUCT_CATEGORIES_T1 THEN FALSE
        ELSE IF meta_group_id.t # "none"
        THEN ~(PyInt(meta_group_id).ok
               /\ PyInt(meta_group_id).v # FILTER_REQUIRE_META_GROUP_ID_T1)
        ELSE ~FILTER_EXCLUDE_ROMAN_NUMERALS(get_en_name(prod_row))

\* --------------------------------------------------------------- raw input
\* A raw type record.  published is the value of row.get("published", True).
TypeRow(name, category_id, meta_group_id, published) ==
    [name |-> name, category_id |-> category_id, meta_group_id |-> meta_group_id,
     published |-> published]

TypeIds == {34, 35, 36, 37, 100, 101, 102, 103, 200, 201, 202, 203, 204, 205}

\* types.json of the model: types.get(str(tid)) is types[tid] for tid in TypeIds.
types ==
    [tid \in TypeIds |->
        CASE tid = 34 -> TypeRow("Tritanium", I(4), None, TRUE)
          [] tid = 35 -> TypeRow("  ", I(4), None, TRUE)
          [] tid = 36 -> TypeRow("Ore <X>", I(4), None, TRUE)
          [] tid = 37 -> TypeRow("Isogen", Str, None, TRUE)
          [] tid = 100 -> TypeRow("EMP S Blueprint", I(9), None, TRUE)
          [] tid = 101 -> TypeRow("EMP S Blueprint Blueprint", I(9), None, TRUE)
          [] tid = 102 -> TypeRow("Hail Blueprint", I(9), None, FALSE)
          [] tid = 103 -> TypeRow(" emp  s BLUEPRINT ", I(9), None, TRUE)
          [] tid = 200 -> TypeRow("EMP S", I(8), I(1), TRUE)
          [] tid = 201 -> TypeRow("Hail II", I(8), None, TRUE)
          [] tid = 202 -> TypeRow("Fleet EMP", I(8), None, TRUE)
          [] tid = 203 -> TypeRow("Rage II", I(8), I(2), TRUE)
          [] tid = 204 -> TypeRow("Void X", I(7), Str, TRUE)
          [] tid = 205 -> TypeRow("Rifter", I(6), I(1), TRUE)]

\* An activity block: time, materials, products.
Activity(time, materials, products) ==
    [time |-> time, materials |-> materials, products |-> products]
NoActivity == Activity(None, Absent, Absent)

\* A raw blueprint record with a manufacturing activity and nothing else.
Blueprint(blueprint_type_id, products, materials, time) ==
    [blueprint_type_id |-> blueprint_type_id, manufacturing |-> TRUE,
     products |-> products, materials |-> materials, time |-> time,
     copying |-> NoActivity, invention |-> NoActivity,
     research_material |-> NoActivity, research_time |-> NoActivity,
     max_production_limit |-> None]

Pair(k1, v1, k2, v2) == [k \in {k1, k2} |-> IF k = k1 THEN v1 ELSE v2]

BaseMaterials == List(<<Entry(I(36), I(1000)), Entry(I(34), I(500))>>)
One(tid) == List(<<Entry(I(tid), I(1))>>)

\* The raw blueprint records the runs draw their input from.
BlueprintRecords ==
    << \* 1: a Tech I charge, materials as a list
       [Blueprint(I(100), One(200), BaseMaterials, I(1200))
            EXCEPT !.max_production_limit = I(300)],
       \* 2: a Tech II product
       Blueprint(I(103), One(203), BaseMaterials, I(1200)),
       \* 3: a Tech II product with a time that is no number
       Blueprint(I(100), One(203), BaseMaterials, Str),
       \* 4: materials as a mapping, two entries of one type; no product quantity
       Blueprint(I(103), List(<<Entry(I(202), None)>>),
                 Dict(Pair("a", Entry(I(34), I(1)), "b", Entry(I(34), I(2)))), None),
       \* 5: malformed material entries, negative quantities, an unknown type
       Blueprint(I(100), List(<<Entry(I(200), I(-2))>>),
                 List(<<Entry(I(34), I(-5)), Entry(I(35), None), NotADict,
                        Entry(Str, I(1)), Entry(I(99), I(3)), Entry(I(36), I(0))>>),
                 I(0)),
       \* 6: a blueprint type id that is no number
       Blueprint(Str, One(200), BaseMaterials, I(1200)),
       \* 7: products as a mapping with numeric keys, the first a negative id
       Blueprint(I(100), Dict(Pair("9", Entry(I(-5), I(3)), "10", Entry(I(200), I(2)))),
                 BaseMaterials, I(1200)),
       \* 8: products as a mapping with a numeric and a non-numeric key
       Blueprint(I(100), Dict(Pair("1", Entry(I(200), I(1)), "a", Entry(I(202), I(1)))),
                 BaseMaterials, I(1200)),
       \* 9: a module whose meta-group id is no number
       Blueprint(I(101), One(204), BaseMaterials, I(1200)),
       \* 10: the blueprint type of record 1 again; invention materials, no time
       [Blueprint(I(100), One(202), One(35), I(600))
            EXCEPT !.invention = Activity(None, One(36), Absent)],
       \* 11: no manufacturing activity
       [Blueprint(I(100), Absent, Absent, None) EXCEPT !.manufacturing = FALSE],
       \* 12: every optional activity
       [Blueprint(I(101), Dict(Pair("b", Entry(I(202), I(5)), "a", Entry(Str, I(1)))),
                  One(34), I(60))
            EXCEPT !.copying = Activity(I(50), Absent, Absent),
                   !.invention = Activity(I(100),
                        Dict(Pair("x", Entry(I(36), I(2)), "y", Entry(I(34), I(8)))),
                        List(<<EntryP(I(103), None, I(40)), EntryP(I(100), I(0), Str)>>)),
                   !.research_material = Activity(I(10), One(34), Absent),
                   !.research_time = Activity(None, One(36), Absent)],
       \* 13: an empty materials collection
       Blueprint(I(100), One(200), List(<<>>), I(1200)),
       \* 14: an unpublished blueprint type
       Blueprint(I(102), One(200), BaseMaterials, I(1200)),
       \* 15: a ship, 16: a Tech II name without meta-group id
       Blueprint(I(100), One(205), BaseMaterials, I(1200)),
       Blueprint(I(103), One(201), BaseMaterials, I(1200)),
       \* 17: a product whose category id is no number
       Blueprint(I(101), One(37), BaseMaterials, I(1200)) >>

BlueprintKeys == DOMAIN BlueprintRecords

\* categories.json: category id -> English name.
CategoryTables ==
    { [k \in {} |-> ""],
      Pair("7", "Module", "9", "Blueprint"),
      Pair("2", "Blueprint", "9", "Blueprint") }

Modes == {"t1", "full"}

\* normalize_name, with its values on the names of types computed once.
TypeNames == {types[tid].name : tid \in TypeIds}
NormalizedTypeNames == [name \in TypeNames |-> NormalizeSteps(name)]

normalize_name(name) ==
    IF name \in TypeNames THEN NormalizedTypeNames[name] ELSE NormalizeSteps(name)

\* ------------------------------------------------------------------- state
VARIABLES
    blueprints,             \* the keys of the raw blueprints mapping
    categories,             \* the raw categories mapping
    mode,                   \* args.mode
    pc,                     \* the position of main
    todo,                   \* keys of blueprints the loop has not reached
    blueprint_category_id,  \* None or I(id)
    subset_blueprints,      \* blueprint type id -> output entry
    needed_type_ids,
    subset_types,           \* type id -> output type entry
    name_index,             \* sequence of [nm, ids], in insertion order
    bid,                    \* loop variable _bid (0 before the loop)
    picked,                 \* _pick_first_product returned in this iteration
    prod,                   \* its result (<<>> for None)
    previous                \* the artifacts of the run before this one

vars == <<blueprints, categories, mode, pc, todo, blueprint_category_id,
          subset_blueprints, needed_type_ids, subset_types, name_index,
          bid, picked, prod, previous>>

input == <<blueprints, categories>>

\* What a run leaves on disk: nothing unless main reached the end.
Artifacts ==
    [pc |-> pc, mode |-> mode,
     blueprints |-> IF pc = "done" THEN subset_blueprints ELSE <<>>,
     types |-> IF pc = "done" THEN subset_types ELSE <<>>,
     nameIndex |-> IF pc = "done" THEN name_index ELSE <<>>,
     blueprintCategoryId |-> IF pc = "done" THEN blueprint_category_id ELSE None]

NoRun ==
    [pc |-> "none", mode |-> "none", blueprints |-> <<>>, types |-> <<>>,
     nameIndex |-> <<>>, blueprintCategoryId |-> None]

\* The state of main after argument parsing and loading.
Start(m) ==
    /\ mode = m
    /\ pc = "categories"
    /\ todo = blueprints
    /\ blueprint_category_id = None
    /\ subset_blueprints = <<>>
    /\ needed_type_ids = {}
    /\ subset_types = <<>>
    /\ name_index = <<>>
    /\ bid = 0
    /\ picked = FALSE
    /\ prod = <<>>

Init ==
    /\ blueprints \in {B \in SUBSET BlueprintKeys : Cardinality(B) <= MaxBlueprints}
    /\ categories \in CategoryTables
    /\ previous = NoRun
    /\ \E m \in Modes : Start(m)

\* ------------------------------------------------------ the category loop
RECURSIVE FirstBlueprintCategory(_)
\* The loop over categories.items() in the given order, with its break.  The
\* keys of CategoryTables are digit strings, so int(cid) does not raise.
FirstBlueprintCategory(order) ==
    IF order = <<>> THEN None
    ELSE IF categories[Head(order)] = "Blueprint" THEN I(StrToInt(Head(order)))
    ELSE FirstBlueprintCategory(Tail(order))

FindBlueprintCategory ==
    /\ pc = "categories"
    /\ \E order \in Perms(DOMAIN categories) :
          blueprint_category_id' = FirstBlueprintCategory(order)
    /\ pc' = "blueprints"
    /\ UNCHANGED <<input, mode, todo, subset_blueprints, needed_type_ids,
                   subset_types, name_index, bid, picked, prod, previous>>

\* --------------------------------------------- Blueprint Subset Builder
FirstIds(rows) == {rows[i][1] : i \in DOMAIN rows}

\* The output entry built from the locals l of one loop iteration: the six
\* mandatory fields, and the optional blocks that carry data.
MakeEntry(l) ==
    LET inv == l.inv_time # 0 /\ (l.inv_mats # <<>> \/ l.inv_prods # <<>>)
        rm == l.rm_time # 0 \/ l.rm_mats # <<>>
        rt == l.rt_time # 0 \/ l.rt_mats # <<>>
        keys == {"blueprintTypeId", "productTypeId", "productQty", "time",
                 "materials", "maxRuns"}
                \cup (IF l.copy_time # 0 THEN {"copyTime"} ELSE {})
                \cup (IF inv THEN {"invTime"} ELSE {})
                \cup (IF inv /\ l.inv_mats # <<>> THEN {"invMaterials"} ELSE {})
                \cup (IF inv /\ l.inv_prods # <<>> THEN {"invProducts"} ELSE {})
                \cup (IF rm THEN {"rmTime"} ELSE {})
                \cup (IF rm /\ l.rm_mats # <<>> THEN {"rmMaterials"} ELSE {})
                \cup (IF rt THEN {"rtTime"} ELSE {})
                \cup (IF rt /\ l.rt_mats # <<>> THEN {"rtMaterials"} ELSE {})
    IN  [k \in keys |->
            CASE k = "blueprintTypeId" -> l.bp_type_id
              [] k = "productTypeId" -> l.prod_type_id
              [] k = "productQty" -> l.prod_qty
              [] k = "time" -> l.time_s
              [] k = "materials" -> l.mats_list
              [] k = "maxRuns" -> l.max_runs
              [] k = "copyTime" -> l.copy_time
              [] k = "invTime" -> l.inv_time
              [] k = "invMaterials" -> l.inv_mats
              [] k = "invProducts" -> l.inv_prods
              [] k = "rmTime" -> l.rm_time
              [] k = "rmMaterials" -> l.rm_mats
              [] k = "rtTime" -> l.rt_time
              [] k = "rtMaterials" -> l.rt_mats]

Known(tid) == tid \in DOMAIN types /\ types[tid].published

\* The iteration orders of the six collections one loop iteration reads.
IterationOrders(bp) ==
    [products : Orders(bp.products), materials : Orders(bp.materials),
     inv_materials : Orders(bp.invention.materials),
     inv_products : Orders(bp.invention.products),
     rm_materials : Orders(bp.research_material.materials),
     rt_materials : Orders(bp.research_time.materials)]

Outcome(kind, p_ran, p, entry, ids) ==
    [kind |-> kind, picked |-> p_ran, prod |-> p, entry |-> entry, ids |-> ids]

\* One iteration of the loop over blueprints.items(), for record bp in mode m
\* with iteration orders o: "skip" (continue), "abort" (an exception leaves
\* main) or "emit".
LoopBody(bp, m, o) ==
    LET bp_type_id == PyInt(bp.blueprint_type_id)
        pick == _pick_first_product(bp.products, o.products)
        p == pick.v
        mats_list == _list_from_materials_blob(bp.materials, o.materials)
        time_s == PyIntOr0(bp.time)
        copy_time == PyIntOr0(bp.copying.time)
        inv_time == PyIntOr0(bp.invention.time)
        inv_mats == _list_from_materials_blob(bp.invention.materials, o.inv_materials)
        inv_prods == _list_from_invention_products(bp.invention.products, o.inv_products)
        rm_time == PyIntOr0(bp.research_material.time)
        rm_mats == _list_from_materials_blob(bp.research_material.materials, o.rm_materials)
        rt_time == PyIntOr0(bp.research_time.time)
        rt_mats == _list_from_materials_blob(bp.research_time.materials, o.rt_materials)
        max_runs == PyIntOr0(bp.max_production_limit)
    IN  IF ~bp.manufacturing THEN Outcome("skip", FALSE, <<>>, <<>>, {})
        ELSE IF ~bp_type_id.ok THEN Outcome("abort", FALSE, <<>>, <<>>, {})
        ELSE IF ~Known(bp_type_id.v) THEN Outcome("skip", FALSE, <<>>, <<>>, {})
        ELSE IF ~pick.ok THEN Outcome("abort", FALSE, <<>>, <<>>, {})
        ELSE IF p = <<>> THEN Outcome("skip", TRUE, p, <<>>, {})
        ELSE IF ~Known(p[1]) THEN Outcome("skip", TRUE, p, <<>>, {})
        ELSE IF m = "t1" /\ ~include_by_t1_policy(types[p[1]])
             THEN Outcome("skip", TRUE, p, <<>>, {})
        ELSE IF mats_list = <<>> THEN Outcome("skip", TRUE, p, <<>>, {})
        ELSE IF ~(time_s.ok /\ copy_time.ok /\ inv_time.ok /\ rm_time.ok
                  /\ rt_time.ok /\ max_runs.ok)
             THEN Outcome("abort", TRUE, p, <<>>, {})
        ELSE Outcome("emit", TRUE, p,
                     MakeEntry([bp_type_id |-> bp_type_id.v, prod_type_id |-> p[1],
                                prod_qty |-> p[2], time_s |-> time_s.v,
                                mats_list |-> mats_list, max_runs |-> max_runs.v,
                                copy_time |-> copy_time.v, inv_time |-> inv_time.v,
                                inv_mats |-> inv_mats, inv_prods |-> inv_prods,
                                rm_time |-> rm_time.v, rm_mats |-> rm_mats,
                                rt_time |-> rt_time.v, rt_mats |-> rt_mats]),
                     {bp_type_id.v, p[1]} \cup FirstIds(mats_list)
                         \cup FirstIds(inv_mats) \cup FirstIds(inv_prods)
                         \cup FirstIds(rm_mats) \cup FirstIds(rt_mats))

\* The loop reaches record k (in whatever order the mapping iterates).
Iterate(k, r) ==
    /\ pc = "blueprints"
    /\ k \in todo
    /\ todo' = todo \ {k}
    /\ bid' = k
    /\ picked' = r.picked
    /\ prod' = r.prod
    /\ UNCHANGED <<input, mode, blueprint_category_id, subset_types, name_index,
                   previous>>

SkipBlueprint ==
    \E k \in todo : \E o \in IterationOrders(BlueprintRecords[k]) :
        LET r == LoopBody(BlueprintRecords[k], mode, o)
        IN  /\ r.kind = "skip"
            /\ Iterate(k, r)
            /\ UNCHANGED <<pc, subset_blueprints, needed_type_ids>>

AbortBlueprint ==
    \E k \in todo : \E o \in IterationOrders(BlueprintRecords[k]) :
        LET r == LoopBody(BlueprintRecords[k], mode, o)
        IN  /\ r.kind = "abort"
            /\ Iterate(k, r)
            /\ pc' = "aborted"
            /\ UNCHANGED <<subset_blueprints, needed_type_ids>>

EmitBlueprint ==
    \E k \in todo : \E o \in IterationOrders(BlueprintRecords[k]) :
        LET r == LoopBody(BlueprintRecords[k], mode, o)
        IN  /\ r.kind = "emit"
            /\ Iterate(k, r)
            /\ subset_blueprints' =
                  (r.entry.blueprintTypeId :> r.entry) @@ subset_blueprints
            /\ needed_type_ids' = needed_type_ids \cup r.ids
            /\ UNCHANGED pc

\* ------------------------------------------------- Type Subset Projector
RECURSIVE SortedSeq(_)
\* sorted(S) of a set of integers
SortedSeq(S) ==
    IF S = {} THEN <<>>
    ELSE LET m == CHOOSE x \in S : \A y \in S : x <= y
         IN  <<m>> \o SortedSeq(S \ {m})

\* The types the loop over sorted(needed_type_ids) projects.
Projected == needed_type_ids \cap DOMAIN types

BuildSubsetTypes ==
    /\ pc = "blueprints"
    /\ todo = {}
    /\ \A tid \in Projected : PyIntOr0(types[tid].category_id).ok
    /\ subset_types' =
          [tid \in Projected |->
              [typeId |-> tid, name |-> get_en_name(types[tid]),
               categoryId |-> PyIntOr0(types[tid].category_id).v]]
    /\ pc' = "index"
    /\ UNCHANGED <<input, mode, todo, blueprint_category_id, subset_blueprints,
                   needed_type_ids, name_index, bid, picked, prod, previous>>

\* int(row.get("category_id", 0) or 0) raises for one of the projected types.
AbortSubsetTypes ==
    /\ pc = "blueprints"
    /\ todo = {}
    /\ \E tid \in Projected : ~PyIntOr0(types[tid].category_id).ok
    /\ pc' = "aborted"
    /\ UNCHANGED <<input, mode, todo, blueprint_category_id, subset_blueprints,
                   needed_type_ids, subset_types, name_index, bid, picked, prod,
                   previous>>

\* --------------------------------------------------- Name Index Builder
\* name_index.setdefault(nm, []).extend(ids)
SetDefaultExtend(index, nm, ids) ==
    IF \E i \in DOMAIN index : index[i].nm = nm
    THEN LET i == CHOOSE j \in DOMAIN index : index[j].nm = nm
         IN  [index EXCEPT ![i].ids = @ \o ids]
    ELSE Append(index, [nm |-> nm, ids |-> ids])

RECURSIVE IndexNames(_, _)
\* The loop over subset_types.items(), which iterates in insertion order:
\* ascending type id.
IndexNames(index, tids) ==
    IF tids = <<>> THEN index
    ELSE LET nm == normalize_name(subset_types[Head(tids)].name)
         IN  IF nm = "" THEN IndexNames(index, Tail(tids))
             ELSE IndexNames(SetDefaultExtend(index, nm, <<Head(tids)>>), Tail(tids))

BuildNameIndex ==
    /\ pc = "index"
    /\ name_index' = IndexNames(<<>>, SortedSeq(DOMAIN subset_types))
    /\ pc' = "alias"
    /\ UNCHANGED <<input, mode, todo, blueprint_category_id, subset_blueprints,
                   needed_type_ids, subset_types, bid, picked, prod, previous>>

Suffix == " blueprint"

RECURSIVE AliasLoop(_, _, _)
\* The loop over list(name_index.items()): the first n entries, the keys present
\* when the loop starts.  ids is the list object of the index, so it holds what
\* earlier iterations added to it.
AliasLoop(index, i, n) ==
    IF i > n THEN index
    ELSE LET nm == index[i].nm
             ids == index[i].ids
             nm2 == Strip(SubSeq(nm, 1, Len(nm) - Len(Suffix)))
         IN  IF EndsWith(nm, Suffix) /\ nm2 # ""
             THEN AliasLoop(SetDefaultExtend(index, nm2, ids), i + 1, n)
             ELSE AliasLoop(index, i + 1, n)

AddAliases ==
    /\ pc = "alias"
    /\ name_index' = AliasLoop(name_index, 1, Len(name_index))
    /\ pc' = "dedupe"
    /\ UNCHANGED <<input, mode, todo, blueprint_category_id, subset_blueprints,
                   needed_type_ids, subset_types, bid, picked, prod, previous>>

\* The id list left as the loops appended it: the slip that
\* C7_NameIndexComplete excludes.
AsAppended(ids) == ids

\* sorted(set(ids))
SortedSet(ids) == SortedSeq({ids[i] : i \in DOMAIN ids})

\* The last loop of main, then the three files are written.
DedupeAndWrite ==
    /\ pc = "dedupe"
    /\ name_index' =
          [i \in DOMAIN name_index |->
              [nm |-> name_index[i].nm, ids |-> SortedSet(name_index[i].ids)]]
    /\ pc' = "done"
    /\ UNCHANGED <<input, mode, todo, blueprint_category_id, subset_blueprints,
                   needed_type_ids, subset_types, bid, picked, prod, previous>>

\* ------------------------------------------------------------ a second run
\* The tool is run again on the same raw input, in either mode.
RunAgain ==
    /\ pc \in {"done", "aborted"}
    /\ previous.pc = "none"
    /\ previous' = Artifacts
    /\ mode' \in Modes
    /\ pc' = "categories"
    /\ todo' = blueprints
    /\ blueprint_category_id' = None
    /\ subset_blueprints' = <<>>
    /\ needed_type_ids' = {}
    /\ subset_types' = <<>>
    /\ name_index' = <<>>
    /\ bid' = 0
    /\ picked' = FALSE
    /\ prod' = <<>>
    /\ UNCHANGED input

Next ==
    \/ FindBlueprintCategory
    \/ SkipBlueprint
    \/ AbortBlueprint
    \/ EmitBlueprint
    \/ BuildSubsetTypes
    \/ AbortSubsetTypes
    \/ BuildNameIndex
    \/ AddAliases
    \/ DedupeAndWrite
    \/ RunAgain

Spec == Init /\ [][Next]_vars

\* ================================================================== claims
FirstIdsOfIndex(i) == {name_index[i].ids[j] : j \in DOMAIN name_index[i].ids}

Emitted == DOMAIN subset_blueprints

StrictlyAscending(rows) ==
    \A i, j \in DOMAIN rows : i < j => rows[i][1] < rows[j][1]

\* C1: every emitted blueprint entry has a manufacturing materials list that is
\* non-empty, has no two rows of one type id and is sorted strictly ascending
\* by type id.
C1_MaterialsCanonical ==
    \A b \in Emitted :
        /\ subset_blueprints[b].materials # <<>>
        /\ StrictlyAscending(subset_blueprints[b].materials)

\* C2: every emitted blueprint entry has a product quantity >= 1 and only
\* material quantities >= 1.
C2_QuantitiesPositive ==
    \A b \in Emitted :
        /\ subset_blueprints[b].productQty >= 1
        /\ \A i \in DOMAIN subset_blueprints[b].materials :
              subset_blueprints[b].materials[i][2] >= 1

\* C3: malformed records never make the run abort: main always reaches its end.
C3_RunNeverAborts == pc # "aborted"

\* C4: two runs on the same raw input in the same mode write the same
\* artifacts, whatever the iteration orders of the raw mappings.
C4_OrderIndependent ==
    (previous.pc = "done" /\ pc = "done" /\ previous.mode = mode)
        => Artifacts = previous

\* C5: alias law: in the final name index every key K ending in " blueprint"
\* has its ids under the key K without that suffix, which is present.
C5_AliasLaw ==
    pc = "done" =>
        \A i \in DOMAIN name_index :
            EndsWith(name_index[i].nm, Suffix) =>
                \E j \in DOMAIN name_index :
                    /\ name_index[j].nm =
                          SubSeq(name_index[i].nm, 1, Len(name_index[i].nm) - Len(Suffix))
                    /\ FirstIdsOfIndex(i) \subseteq FirstIdsOfIndex(j)

\* C6: mode monotonicity: on the same raw input, every blueprint id a t1 run
\* emits is emitted by a full run.
C6_ModeMonotone ==
    (previous.pc = "done" /\ previous.mode = "t1" /\ mode = "full"
     /\ pc \in {"done", "aborted"})
        => DOMAIN previous.blueprints \subseteq DOMAIN Artifacts.blueprints

\* C7: name index completeness: every type of the type subset whose name does
\* not normalize to "" is listed under its normalized name, and every id list
\* of the name index is duplicate-free and sorted ascending.
C7_NameIndexComplete ==
    pc = "done" =>
        /\ \A tid \in DOMAIN subset_types :
              normalize_name(subset_types[tid].name) # "" =>
                  \E i \in DOMAIN name_index :
                      /\ name_index[i].nm = normalize_name(subset_types[tid].name)
                      /\ tid \in FirstIdsOfIndex(i)
        /\ \A i \in DOMAIN name_index :
              \A j, k \in DOMAIN name_index[i].ids :
                  j < k => name_index[i].ids[j] < name_index[i].ids[k]

\* C7's case: a finished run whose type subset has a type without index entry
\* and whose index has a list of several ids that the alias step extended.
C7_Witness ==
    /\ pc = "done"
    /\ \E tid \in DOMAIN subset_types : normalize_name(subset_types[tid].name) = ""
    /\ \E i \in DOMAIN name_index :
          /\ Len(name_index[i].ids) >= 2
          /\ \E tid \in FirstIdsOfIndex(i) :
                normalize_name(subset_types[tid].name) # name_index[i].nm

\* The selection C8 describes: among the entries that give a positive type id,
\* the one whose key is first (numeric keys by value, others as strings).
KeyBefore(a, b) ==
    IF IsDigitStr(a) /\ IsDigitStr(b) THEN StrToInt(a) < StrToInt(b) ELSE StrLess(a, b)

ClaimedProduct(products) ==
    LET usable == {k \in DOMAIN products.items :
                      /\ products.items[k].isdict
                      /\ PyInt(products.items[k].type_id).ok
                      /\ PyInt(products.items[k].type_id).v > 0}
    IN  IF usable = {} THEN <<>>
        ELSE LET k == CHOOSE a \in usable : \A b \in usable \ {a} : KeyBefore(a, b)
                 qty == PyIntDefault1(products.items[k].quantity)
             IN  <<PyInt(products.items[k].type_id).v, Max(1, qty.v)>>

\* C8: for a mapping-shaped products collection the Product Selector returns
\* the entry with the first key among those giving a positive type id, or none.
C8_FirstPositiveProduct ==
    (picked /\ BlueprintRecords[bid].products.shape = "dict")
        => prod = ClaimedProduct(BlueprintRecords[bid].products)

OptionalIds(entry, key) == IF key \in DOMAIN entry THEN FirstIds(entry[key]) ELSE {}

EntryIds(entry) ==
    {entry.blueprintTypeId, entry.productTypeId} \cup FirstIds(entry.materials)
        \cup OptionalIds(entry, "invMaterials") \cup OptionalIds(entry, "invProducts")
        \cup OptionalIds(entry, "rmMaterials") \cup OptionalIds(entry, "rtMaterials")

\* C10: after a run the keys of the type subset are exactly the type ids that
\* the entries of the final blueprints map carry and that have a raw type
\* record.
C10_TypesAreReferenced ==
    pc = "done" =>
        DOMAIN subset_types =
            {tid \in DOMAIN types : \E b \in Emitted : tid \in EntryIds(subset_blueprints[b])}

====
